---------------------------- MODULE Spec2Model ----------------------------
(***************************************************************************)
(* A model of boreas/process.py: the result scatterer (fillPrt,            *)
(* fillAlpha), the outlier cleaner (cleanFeatures), dataset persistence    *)
(* (downsampleIdx, saveTrainingFeatures, loadTrainingFeatures), the        *)
(* flow-quantity container (MeanFlowQuantities), the gating selector       *)
(* (calculateShouldUse), the invariant calculator (calcInvariants), the    *)
(* feature extractor (calculateFeatures, calculateFeaturesAndBasis) and    *)
(* the label calculator (calculateGamma); and of rafofc/models.py: the     *)
(* model bundle (MLModel).                                                 *)
(*                                                                         *)
(* Every function of the file is a synchronous batch call.  A call is one  *)
(* action that draws its arguments from bounded sets and records the       *)
(* arguments and the outcome; cleanFeatures, which loops, is one action    *)
(* per loop iteration.  Real numbers are exact rationals <<num, den>>;     *)
(* the inputs are chosen so that every square root taken is exact.         *)
(***************************************************************************)
EXTENDS Integers, Sequences, FiniteSets, TLC

VARIABLES
    pc,            \* position of the driver: which call is in progress / done
    fill_args,     \* arguments of the last fillPrt / fillAlpha call
    fill_ret,      \* its outcome
    x_features,    \* cleanFeatures: the feature matrix argument
    mask,          \* cleanFeatures: the running inclusion mask
    prev_mask,     \* cleanFeatures: the inclusion mask before the last iteration
    cleaned_exs,   \* cleanFeatures: <<>> (None) or <<count>>
    iter,          \* cleanFeatures: iterations of the for loop completed
    warning_flag,  \* cleanFeatures: the non-convergence flag
    clean_ret,     \* cleanFeatures: arguments used at return and the arrays returned
    training_list, \* persistence: the list handed to saveTrainingFeatures
    disk,          \* persistence: content of the file, <<>> when absent
    save_args,     \* persistence: model_type and downsample of the save
    load_ret,      \* persistence: arguments and outcome of loadTrainingFeatures
    zone,          \* container: the data source and constructor arguments
    mfq,           \* container: the MeanFlowQuantities instance, or the failure
    gate,          \* gating: threshold and mask of the last calculateShouldUse
    inv,           \* calcInvariants: arguments and result of the last call
    feat,          \* feature extractor: arguments and outcome of the last call
    gamma,         \* calculateGamma: arguments and outcome of the last call
    files,         \* MLModel: the bundle files on disk, by path
    ml,            \* MLModel: the instance constructed, or the failure
    ml_call        \* MLModel: the last method call on the instance and its outcome

vars == <<pc, fill_args, fill_ret, x_features, mask, prev_mask, cleaned_exs, iter,
          warning_flag, clean_ret, training_list, disk, save_args, load_ret,
          zone, mfq, gate, inv, feat, gamma, files, ml, ml_call>>

fillVars == <<fill_args, fill_ret>>
cleanVars == <<x_features, mask, prev_mask, cleaned_exs, iter, warning_flag, clean_ret>>
persistVars == <<training_list, disk, save_args, load_ret>>
gateVars == <<zone, mfq, gate>>
calcVars == <<inv, feat, gamma>>
bundleVars == <<files, ml, ml_call>>

-----------------------------------------------------------------------------
(* Generic helpers: Python's None, sequences, boolean-mask indexing.        *)

None == << >>

\* all sequences over S of length 0..n
SeqsUpTo(S, n) == UNION {[1..k -> S] : k \in 0..n}

RECURSIVE CountTrue(_)
\* np.sum(should_use): the number of True entries of a boolean array
CountTrue(m) ==
    IF m = << >> THEN 0
    ELSE (IF Head(m) THEN 1 ELSE 0) + CountTrue(Tail(m))

\* the number of True entries among the first i entries of m
Rank(m, i) == CountTrue(SubSeq(m, 1, i))

\* arr[:np.sum(m)]: as many entries as m has True positions, taken from the front
Compress_prefix(arr, m) == SubSeq(arr, 1, CountTrue(m))

RECURSIVE Compress(_, _)
\* arr[m] for a boolean mask m of the same length: the entries at the True
\* positions of m, in ascending position
Compress(arr, m) ==
    IF m = << >> THEN << >>
    ELSE IF Head(m) THEN <<Head(arr)>> \o Compress(Tail(arr), Tail(m))
         ELSE Compress(Tail(arr), Tail(m))

\* full[m] = vals: the k-th True position of m receives vals[k]
ScatterInto(full, m, vals) ==
    [i \in 1..Len(full) |-> IF m[i] THEN vals[Rank(m, i)] ELSE full[i]]

-----------------------------------------------------------------------------
(* Exact rationals <<n, d>>, d > 0, kept in lowest terms.                   *)

RECURSIVE Gcd(_, _)
Gcd(a, b) == IF b = 0 THEN a ELSE Gcd(b, a % b)

Abs(x) == IF x < 0 THEN -x ELSE x

Rat(n, d) ==
    LET g == Gcd(Abs(n), Abs(d))
        s == IF d < 0 THEN -1 ELSE 1
    IN  <<(s * n) \div g, (s * d) \div g>>

RZero == <<0, 1>>
ROne == <<1, 1>>
RLt(a, b) == a[1] * b[2] < b[1] * a[2]
RLe(a, b) == a[1] * b[2] <= b[1] * a[2]
RGe(a, b) == RLe(b, a)
RGt(a, b) == RLt(b, a)
RMul(a, b) == Rat(a[1] * b[1], a[2] * b[2])
RAdd(a, b) == Rat(a[1] * b[2] + b[1] * a[2], a[2] * b[2])
\* a / b for b # 0
RDiv(a, b) == Rat(a[1] * b[2], a[2] * b[1])
\* int(x) of a non-negative rational: truncation
RFloor(a) == a[1] \div a[2]

-----------------------------------------------------------------------------
(* Outcomes of a call: the value returned, or the exception raised.         *)

Ok(v) == [status |-> "ok", value |-> v]
Raise(kind, msg) == [status |-> kind, value |-> msg]

-----------------------------------------------------------------------------
(* Result scatterer: fillPrt and fillAlpha.                                 *)

\* largest number of mesh cells of a scatter call
MaxFillCells == 3

\* constants.PR_T, the default read when default_prt is None.  constants.py is
\* not among the sources; 0.85 stands for it.
PR_T == <<17, 20>>

\* a 3x3 matrix of rationals from a 3x3 matrix of integers
IntMat(m) == [i \in 1..3 |-> [j \in 1..3 |-> <<m[i][j], 1>>]]

\* scalar values offered to fillPrt (one of them negative)
PrtVals == {<<-1, 1>>, <<0, 1>>, <<1, 2>>, <<3, 1>>}

\* tensors offered to fillAlpha: negative off-diagonals, one negative diagonal
\* entry at each position, and the zero tensor
AlphaVals ==
    { IntMat(<<<<1, -1, 0>>, <<-2, 1, 0>>, <<0, 0, 3>>>>),
      IntMat(<<<<-1, 0, 0>>, <<0, 1, 0>>, <<0, 0, 1>>>>),
      IntMat(<<<<1, 0, 0>>, <<0, -1, 0>>, <<0, 0, 1>>>>),
      IntMat(<<<<1, 0, 0>>, <<0, 1, 0>>, <<0, 0, -1>>>>),
      IntMat(<<<<0, 0, 0>>, <<0, 0, 0>>, <<0, 0, 0>>>>) }

\* values offered as default_prt: None, non-positive and positive numbers
DefaultVals == {None, <<-1, 1>>, <<0, 1>>, <<1, 1>>, <<2, 1>>}

FillMasks == SeqsUpTo(BOOLEAN, MaxFillCells)

\* fillPrt without the sign assertion on Prt
fillPrt_nosign(Prt, should_use, default_prt) ==
    LET n_cells == Len(should_use)
        n_useful == CountTrue(should_use)
        d == IF default_prt = None THEN PR_T ELSE default_prt
    IN  IF Len(Prt) # n_useful
        THEN Raise("AssertionError", "Pr_t has wrong number of entries!")
        ELSE IF ~RGt(d, RZero)
        THEN Raise("AssertionError", "default_prt must be a positive floating point number!")
        ELSE Ok(ScatterInto([i \in 1..n_cells |-> RMul(ROne, d)], should_use, Prt))

fillPrt(Prt, should_use, default_prt) ==
    LET n_cells == Len(should_use)
        n_useful == CountTrue(should_use)
        d == IF default_prt = None THEN PR_T ELSE default_prt
    IN  IF Len(Prt) # n_useful
        THEN Raise("AssertionError", "Pr_t has wrong number of entries!")
        ELSE IF ~(\A k \in 1..Len(Prt) : RGe(Prt[k], RZero))
        THEN Raise("AssertionError", "Found negative entries for Prt!")
        ELSE IF ~RGt(d, RZero)
        THEN Raise("AssertionError", "default_prt must be a positive floating point number!")
        ELSE Ok(ScatterInto([i \in 1..n_cells |-> RMul(ROne, d)], should_use, Prt))

\* fillAlpha with the default diagonal set to default_prt instead of 1/default_prt
fillAlpha_diag(alphaij, should_use, default_prt) ==
    LET n_cells == Len(should_use)
        n_useful == CountTrue(should_use)
        d == IF default_prt = None THEN PR_T ELSE default_prt
        iso == [i \in 1..3 |-> [j \in 1..3 |-> IF i = j THEN d ELSE RZero]]
    IN  IF Len(alphaij) # n_useful
        THEN Raise("AssertionError", "alphaij has wrong number of entries!")
        ELSE IF \E k \in 1..Len(alphaij), i \in 1..3 : ~RGe(alphaij[k][i][i], RZero)
        THEN Raise("AssertionError", "Found negative entries for alpha_ii")
        ELSE IF ~RGt(d, RZero)
        THEN Raise("AssertionError", "default_prt must be a positive floating point number!")
        ELSE Ok(ScatterInto([i \in 1..n_cells |-> iso], should_use, alphaij))

fillAlpha(alphaij, should_use, default_prt) ==
    LET n_cells == Len(should_use)
        n_useful == CountTrue(should_use)
        d == IF default_prt = None THEN PR_T ELSE default_prt
        iso == [i \in 1..3 |-> [j \in 1..3 |-> IF i = j THEN RDiv(ROne, d) ELSE RZero]]
    IN  IF Len(alphaij) # n_useful
        THEN Raise("AssertionError", "alphaij has wrong number of entries!")
        ELSE IF ~(\A k \in 1..Len(alphaij) : RGe(alphaij[k][1][1], RZero))
        THEN Raise("AssertionError", "Found negative entries for alpha_xx")
        ELSE IF ~(\A k \in 1..Len(alphaij) : RGe(alphaij[k][2][2], RZero))
        THEN Raise("AssertionError", "Found negative entries for alpha_yy")
        ELSE IF ~(\A k \in 1..Len(alphaij) : RGe(alphaij[k][3][3], RZero))
        THEN Raise("AssertionError", "Found negative entries for alpha_zz")
        ELSE IF ~RGt(d, RZero)
        THEN Raise("AssertionError", "default_prt must be a positive floating point number!")
        ELSE Ok(ScatterInto([i \in 1..n_cells |-> iso], should_use, alphaij))

\* a call of fillPrt
FillPrt ==
    /\ pc = "fill_idle"
    /\ \E should_use \in FillMasks, Prt \in SeqsUpTo(PrtVals, MaxFillCells),
          default_prt \in DefaultVals :
          /\ fill_args' = [fn |-> "fillPrt", values |-> Prt, should_use |-> should_use,
                           default_prt |-> default_prt]
          /\ fill_ret' = fillPrt(Prt, should_use, default_prt)
    /\ pc' = "fill_done"
    /\ UNCHANGED <<calcVars, bundleVars, cleanVars, persistVars, gateVars>>

\* a call of fillAlpha
FillAlpha ==
    /\ pc = "fill_idle"
    /\ \E should_use \in FillMasks, alphaij \in SeqsUpTo(AlphaVals, MaxFillCells),
          default_prt \in DefaultVals :
          /\ fill_args' = [fn |-> "fillAlpha", values |-> alphaij, should_use |-> should_use,
                           default_prt |-> default_prt]
          /\ fill_ret' = fillAlpha(alphaij, should_use, default_prt)
    /\ pc' = "fill_done"
    /\ UNCHANGED <<calcVars, bundleVars, cleanVars, persistVars, gateVars>>

-----------------------------------------------------------------------------
(* Outlier cleaner: cleanFeatures.                                          *)
(*                                                                         *)
(* The hyperparameters are read from constants.py, which is not among the  *)
(* sources; the values below stand for them.  The comparisons against       *)
(* mean -/+ n_std*std are made exactly:                                     *)
(*   x < mean - k*std  \/  x > mean + k*std   <=>   (x - mean)^2 > k^2*var  *)
(*   <=>  (c*x - s)^2 > k^2 * (c*sq - s^2)                                  *)
(* with c, s, sq the count, sum and sum of squares of the included rows.   *)

\* constants.N_STD
N_STD == 1
\* constants.MAX_ITER
MAX_ITER == 4
\* constants.TOL
TOL == <<1, 100>>
\* constants.MAX_CLEAN
MAX_CLEAN == <<1, 2>>

\* largest number of rows of a feature matrix
MaxRows == 6

\* feature rows offered to cleanFeatures (two feature columns)
FeatRows == {<<0, 1>>, <<1, 0>>, <<9, 0>>, <<10, 0>>}

\* number of feature columns of the matrices offered
NumCols == 2

FeatureMatrices == SeqsUpTo(FeatRows, MaxRows)

RECURSIVE MaskedSum(_, _, _, _)
\* np.sum(x_features[m, j]) over the first i rows
MaskedSum(X, m, j, i) ==
    IF i = 0 THEN 0
    ELSE (IF m[i] THEN X[i][j] ELSE 0) + MaskedSum(X, m, j, i - 1)

RECURSIVE MaskedSumSq(_, _, _, _)
\* np.sum(x_features[m, j]**2) over the first i rows
MaskedSumSq(X, m, j, i) ==
    IF i = 0 THEN 0
    ELSE (IF m[i] THEN X[i][j] * X[i][j] ELSE 0) + MaskedSumSq(X, m, j, i - 1)

\* entry (r, j) of the boolean outlier matrix of line 255, the mean and std
\* taken over the rows included by m.  With no row included the mean and std
\* are nan and both comparisons are False.
IsOutlier(X, m, r, j) ==
    LET c == CountTrue(m)
        s == MaskedSum(X, m, j, Len(X))
        sq == MaskedSumSq(X, m, j, Len(X))
        dev == c * X[r][j] - s
    IN  /\ c > 0
        /\ dev * dev > N_STD * N_STD * (c * sq - s * s)

\* lines 250-261: the inclusion mask after one iteration that starts from m
NextMask(X, m) ==
    [r \in 1..Len(X) |-> ~(\E j \in 1..NumCols : IsOutlier(X, m, r, j))]

\* the convergence test that never succeeds
Converged_never(old, new) == FALSE

\* line 265: cleaned_exs is not None and
\* (new_cleaned_exs - cleaned_exs)/cleaned_exs < tol.  The operands are numpy
\* integers: a zero divisor gives nan or inf, and the comparison is False.
Converged(old, new) ==
    /\ old # None
    /\ old[1] # 0
    /\ RLt(Rat(new - old[1], old[1]), TOL)

\* line 272: cleaned_exs/x_features.shape[0] > max_clean (nan > max_clean is
\* False for an empty matrix)
TooManyCleaned(cleaned, n) ==
    /\ n # 0
    /\ RGt(Rat(cleaned, n), MAX_CLEAN)

\* cleanFeatures is called: lines 236-246
CleanStart ==
    /\ pc = "clean_idle"
    /\ \E X \in FeatureMatrices :
          /\ x_features' = X
          /\ mask' = [r \in 1..Len(X) |-> TRUE]
          /\ prev_mask' = [r \in 1..Len(X) |-> TRUE]
    /\ warning_flag' = TRUE
    /\ cleaned_exs' = None
    /\ iter' = 0
    /\ clean_ret' = None
    /\ pc' = IF MAX_ITER > 0 THEN "clean_loop" ELSE "clean_exit"
    /\ UNCHANGED <<calcVars, bundleVars, fillVars, persistVars, gateVars>>

\* one iteration of the for loop: lines 247-273
CleanIterate ==
    /\ pc = "clean_loop"
    /\ iter < MAX_ITER
    /\ LET new_mask == NextMask(x_features, mask)
           new_cleaned_exs == Len(x_features) - CountTrue(new_mask)
           converged == Converged(cleaned_exs, new_cleaned_exs)
           stop == \/ converged
                   \/ TooManyCleaned(new_cleaned_exs, Len(x_features))
                   \/ iter + 1 = MAX_ITER
       IN  /\ mask' = new_mask
           /\ prev_mask' = mask
           /\ cleaned_exs' = <<new_cleaned_exs>>
           /\ warning_flag' = IF converged THEN FALSE ELSE warning_flag
           /\ iter' = iter + 1
           /\ pc' = IF stop THEN "clean_exit" ELSE "clean_loop"
    /\ UNCHANGED <<calcVars, bundleVars, x_features, clean_ret, fillVars, persistVars, gateVars>>

\* gating masks that fit a matrix of n rows: n True cells and at most one False
\* cell, placed first, second or last
GatingMasks(n) ==
    {[i \in 1..n |-> TRUE]}
        \cup {[i \in 1..(n + 1) |-> i # p] : p \in {1, 2, n + 1} \cap (1..(n + 1))}

\* the tensor basis argument: None, or one (tagged) basis row per feature row
BasisArgs(n) == {None, <<[k \in 1..n |-> k]>>}

\* after the loop: lines 281-297.  should_use and tensor_basis are read here
\* for the first time.
CleanReturn ==
    /\ pc = "clean_exit"
    /\ \E should_use \in GatingMasks(Len(x_features)),
          tensor_basis \in BasisArgs(Len(x_features)) :
          clean_ret' =
              [should_use |-> should_use,
               tensor_basis |-> tensor_basis,
               warned |-> warning_flag,
               new_x_features |-> Compress(x_features, mask),
               new_should_use |->
                   ScatterInto([i \in 1..Len(should_use) |-> FALSE], should_use, mask),
               new_tensor_basis |->
                   IF tensor_basis = None THEN None
                   ELSE <<Compress(tensor_basis[1], mask)>>]
    /\ pc' = "clean_done"
    /\ UNCHANGED <<calcVars, bundleVars, x_features, mask, prev_mask, cleaned_exs, iter, warning_flag,
                   fillVars, persistVars, gateVars>>

-----------------------------------------------------------------------------
(* Dataset persistence: downsampleIdx, saveTrainingFeatures,                *)
(* loadTrainingFeatures.  Indices are 1-based here (0-based in the code).   *)
(* np.random.shuffle is a nondeterministic choice of a permutation.         *)

\* largest number of rows of a saved array
MaxPoints == 3

\* all permutations of 1..n, as sequences
Perms(n) == {p \in [1..n -> 1..n] : \A i, j \in 1..n : p[i] = p[j] => i = j}

\* values offered as downsample: None, 0, 1/2, 1, 3/2, 2 and 5
DownsampleVals == {None, <<0, 1>>, <<1, 2>>, <<1, 1>>, <<3, 2>>, <<2, 1>>, <<5, 1>>}

ModelTypes == {"RF", "TBNNS"}

\* lists offered to saveTrainingFeatures for n rows: a feature array with
\* distinct rows, alone or with a label array that repeats values
TrainingLists(n) ==
    LET X == [k \in 1..n |-> 10 + k]
        y == [k \in 1..n |-> k % 2]
    IN  {<<X>>, <<X, y>>}

\* var[idx]: the rows of var at the indices idx, in the order of idx
Take(var, idx) == [k \in 1..Len(idx) |-> var[idx[k]]]

Min(a, b) == IF a < b THEN a ELSE b

\* lines 463-471: the number of indices taken, for downsample > 0
NTake(n_total, downsample) ==
    IF RFloor(downsample) > 1
    THEN Min(RFloor(downsample), n_total)
    ELSE Min(RFloor(RMul(downsample, <<n_total, 1>>)), n_total)

\* downsampleIdx that drops the last shuffled index when downsample is None
downsampleIdx_short(n_total, downsample, idx_tot) ==
    IF downsample = None THEN Ok(SubSeq(idx_tot, 1, n_total - 1))
    ELSE IF ~RGt(downsample, RZero)
    THEN Raise("AssertionError", "downsample must be greater than 0!")
    ELSE Ok(SubSeq(idx_tot, 1, NTake(n_total, downsample)))

\* downsampleIdx that reads every downsample above 1 as a number of rows
downsampleIdx_gt1(n_total, downsample, idx_tot) ==
    IF downsample = None THEN Ok(idx_tot)
    ELSE IF ~RGt(downsample, RZero)
    THEN Raise("AssertionError", "downsample must be greater than 0!")
    ELSE IF RGt(downsample, ROne)
    THEN Ok(SubSeq(idx_tot, 1, Min(RFloor(downsample), n_total)))
    ELSE Ok(SubSeq(idx_tot, 1, Min(RFloor(RMul(downsample, <<n_total, 1>>)), n_total)))

\* downsampleIdx, idx_tot being np.arange(n_total) as shuffled
downsampleIdx(n_total, downsample, idx_tot) ==
    IF downsample = None THEN Ok(idx_tot)
    ELSE IF ~RGt(downsample, RZero)
    THEN Raise("AssertionError", "downsample must be greater than 0!")
    ELSE Ok(SubSeq(idx_tot, 1, NTake(n_total, downsample)))

\* saveTrainingFeatures: the outcome, whose value is the file written
saveTrainingFeatures(list, model_type, downsample, idx_tot) ==
    LET n_total == Len(list[1])
        idx == downsampleIdx(n_total, downsample, idx_tot)
    IN  IF idx.status # "ok" THEN idx
        ELSE Ok(<<model_type, [a \in 1..Len(list) |-> Take(list[a], idx.value)]>>)

\* loadTrainingFeatures without the assertion on the model type
loadTrainingFeatures_notag(file, model_type, downsample, idx_tot) ==
    IF file = None THEN Raise("FileNotFoundError", "no such file")
    ELSE LET save_vars == file[2]
             idx == downsampleIdx(Len(save_vars[1]), downsample, idx_tot)
         IN  IF idx.status # "ok" THEN idx
             ELSE Ok([a \in 1..Len(save_vars) |-> Take(save_vars[a], idx.value)])

\* loadTrainingFeatures: the outcome, whose value is the list returned
loadTrainingFeatures(file, model_type, downsample, idx_tot) ==
    IF file = None THEN Raise("FileNotFoundError", "no such file")
    ELSE LET model_type_disk == file[1]
             save_vars == file[2]
             n_points == Len(save_vars[1])
             idx == downsampleIdx(n_points, downsample, idx_tot)
         IN  IF model_type # model_type_disk
             THEN Raise("AssertionError", "Features from the wrong model!")
             ELSE IF idx.status # "ok" THEN idx
             ELSE IF \E a \in 1..Len(save_vars) : Len(save_vars[a]) # n_points
             THEN Raise("AssertionError", "Wrong number of points in file")
             ELSE Ok([a \in 1..Len(save_vars) |-> Take(save_vars[a], idx.value)])

\* a call of saveTrainingFeatures; the file is written only when no assertion fails
SaveTrainingFeatures ==
    /\ pc = "persist_idle"
    /\ \E n \in 0..MaxPoints :
       \E list \in TrainingLists(n), model_type \in ModelTypes,
          downsample \in DownsampleVals, idx_tot \in Perms(n) :
          LET r == saveTrainingFeatures(list, model_type, downsample, idx_tot)
              idx == downsampleIdx(n, downsample, idx_tot)
          IN  /\ training_list' = list
              /\ save_args' = [model_type |-> model_type, downsample |-> downsample,
                               status |-> r.status,
                               idx |-> IF idx.status = "ok" THEN idx.value ELSE << >>]
              /\ disk' = IF r.status = "ok" THEN r.value ELSE disk
    /\ load_ret' = None
    /\ pc' = "persist_saved"
    /\ UNCHANGED <<calcVars, bundleVars, fillVars, cleanVars, gateVars>>

\* a call of loadTrainingFeatures on the file
LoadTrainingFeatures ==
    /\ pc = "persist_saved"
    /\ \E model_type \in ModelTypes, downsample \in DownsampleVals,
          idx_tot \in Perms(IF disk = None THEN 0 ELSE Len(disk[2][1])) :
          LET r == loadTrainingFeatures(disk, model_type, downsample, idx_tot)
              idx == downsampleIdx(Len(idx_tot), downsample, idx_tot)
          IN  load_ret' = [model_type |-> model_type, downsample |-> downsample,
                           status |-> r.status, value |-> r.value,
                           idx |-> IF idx.status = "ok" THEN idx.value ELSE << >>]
    /\ pc' = "persist_loaded"
    /\ UNCHANGED <<calcVars, bundleVars, training_list, disk, save_args, fillVars, cleanVars, gateVars>>

-----------------------------------------------------------------------------
(* Flow-quantity container: MeanFlowQuantities.                             *)
(*                                                                         *)
(* The zone (the tecplot data source) is a sequence of cells, each holding *)
(* the value of every named variable in that cell; one variable may be     *)
(* longer than the number of cells (a variable that is not cell centred).  *)
(* Indexing an array with a boolean mask of another length raises           *)
(* IndexError (numpy >= 1.13).                                              *)

\* largest number of cells of a zone
MaxZoneCells == 2

Mat3(a, b, c) == <<a, b, c>>

\* a cell with a significant temperature gradient and valid statistics
BaseCell ==
    [gradT |-> <<3, 4, 0>>, rho |-> 1, mut |-> 2, tke |-> 4, epsilon |-> 2,
     mu |-> 1, d |-> 3,
     gradU |-> Mat3(<<1, 2, 0>>, <<0, -1, 0>>, <<0, 0, 0>>),
     u |-> <<1, 0, 0>>, uc |-> <<-3, 0, 4>>, t |-> 1]

\* the cells offered: the base cell, cells with zero tke and/or epsilon, with
\* a zero or a negative-component gradient, one cell per validated variable
\* with that variable negative, and cells with a turbulent flux along the
\* temperature gradient and with a large flux against it
ZoneCells ==
    { BaseCell,
      [BaseCell EXCEPT !.gradT = <<0, 0, 0>>],
      [BaseCell EXCEPT !.gradT = <<0, 0, -2>>, !.tke = 1, !.epsilon = 8],
      [BaseCell EXCEPT !.tke = 0, !.epsilon = 0],
      [BaseCell EXCEPT !.tke = 0],
      [BaseCell EXCEPT !.epsilon = 0],
      [BaseCell EXCEPT !.gradT = <<0, 0, 0>>, !.epsilon = 0],
      [BaseCell EXCEPT !.rho = -1],
      [BaseCell EXCEPT !.mut = -1],
      [BaseCell EXCEPT !.tke = -1],
      [BaseCell EXCEPT !.epsilon = -1],
      [BaseCell EXCEPT !.mu = -1],
      [BaseCell EXCEPT !.d = -1],
      [BaseCell EXCEPT !.gradT = <<0, 0, -2>>, !.tke = 1, !.epsilon = 1],
      [BaseCell EXCEPT !.uc = <<3, 0, 4>>],
      [BaseCell EXCEPT !.uc = <<-12, -16, 0>>, !.u = <<0, 2, -1>>, !.t = 3] }

\* the variables read in both modes, in label mode and in feature mode, by
\* the field of the cell that holds them (a vector's components together)
CommonFields == {"gradT", "rho", "mut"}
LabelFields == {"u", "uc", "t"}
FeatureFields == {"gradU", "tke", "epsilon", "mu", "d"}

\* the mask, deltaT0 and over-long variable offered with n cells: every mask
\* with deltaT0 = 1, no mask with deltaT0 = 2, and no mask with one over-long
\* variable
ZoneOptions(n) ==
    { [long |-> "none", mask |-> m, deltaT0 |-> 1] :
        m \in {None} \cup {<<k>> : k \in [1..n -> BOOLEAN]} }
    \cup { [long |-> "none", mask |-> None, deltaT0 |-> 2] }
    \cup { [long |-> f, mask |-> None, deltaT0 |-> 1] :
             f \in CommonFields \cup LabelFields \cup FeatureFields }

\* zone.values(name).as_numpy_array(): one entry per cell, and one more when
\* the variable is the over-long one
ZoneValues(z, f) ==
    [i \in 1..(Len(z.cells) + (IF z.long = f THEN 1 ELSE 0)) |->
        IF i <= Len(z.cells) THEN z.cells[i][f] ELSE 0]

\* lines 580-581: the mask applied to every array read
ZoneMask(z) ==
    IF z.mask = None THEN [i \in 1..Len(z.cells) |-> TRUE] ELSE z.mask[1]

\* the fields the constructor reads in the mode of z
FieldsRead(z) ==
    CommonFields \cup (IF z.labels THEN LabelFields ELSE FeatureFields)

\* zone.values(name).as_numpy_array()[mask], for an array of the mask's length
LoadField(z, f) == Compress(ZoneValues(z, f), ZoneMask(z))

\* lines 638-643: gradT /= deltaT0, in feature mode only
nonDimensionalize(labels, gradT, deltaT0) ==
    [i \in 1..Len(gradT) |->
        [c \in 1..3 |-> IF labels THEN <<gradT[i][c], 1>>
                        ELSE Rat(gradT[i][c], deltaT0)]]

NonNegative(arr) == \A i \in 1..Len(arr) : arr[i] >= 0

\* check without the assertion on epsilon
check_noeps(m) ==
    IF Len(m.rho) # m.n_points \/ Len(m.mut) # m.n_points
    THEN "Wrong number of entries"
    ELSE IF ~NonNegative(m.rho) THEN "Found negative entries for rho!"
    ELSE IF ~NonNegative(m.mut) THEN "Found negative entries for mut!"
    ELSE IF m.labels
    THEN (IF Len(m.t) # m.n_points THEN "Wrong number of entries for T" ELSE "")
    ELSE IF \E f \in {"tke", "epsilon", "mu", "d"} : Len(m[f]) # m.n_points
    THEN "Wrong number of entries"
    ELSE IF ~NonNegative(m.tke) THEN "Found negative entries for tke!"
    ELSE IF ~NonNegative(m.mu) THEN "Found negative entries for mu!"
    ELSE IF ~NonNegative(m.d) THEN "Found negative entries for d!"
    ELSE ""

\* lines 645-672: the message of the first assertion that fails, "" when none
check(m) ==
    IF Len(m.rho) # m.n_points \/ Len(m.mut) # m.n_points
    THEN "Wrong number of entries"
    ELSE IF ~NonNegative(m.rho) THEN "Found negative entries for rho!"
    ELSE IF ~NonNegative(m.mut) THEN "Found negative entries for mut!"
    ELSE IF m.labels
    THEN (IF Len(m.t) # m.n_points THEN "Wrong number of entries for T" ELSE "")
    ELSE IF \E f \in {"tke", "epsilon", "mu", "d"} : Len(m[f]) # m.n_points
    THEN "Wrong number of entries"
    ELSE IF ~NonNegative(m.tke) THEN "Found negative entries for tke!"
    ELSE IF ~NonNegative(m.epsilon) THEN "Found negative entries for epsilon!"
    ELSE IF ~NonNegative(m.mu) THEN "Found negative entries for mu!"
    ELSE IF ~NonNegative(m.d) THEN "Found negative entries for d!"
    ELSE ""

\* MeanFlowQuantities.__init__: the instance, or the exception raised.  The
\* attributes of the other mode are absent (None).
MeanFlowQuantities(z) ==
    IF \E f \in FieldsRead(z) : Len(ZoneValues(z, f)) # Len(ZoneMask(z))
    THEN Raise("IndexError", "boolean index did not match indexed array")
    ELSE LET Field(f) == IF f \in FieldsRead(z) THEN LoadField(z, f) ELSE None
             m == [n_points |-> CountTrue(ZoneMask(z)),
                   labels |-> z.labels,
                   gradT |-> nonDimensionalize(z.labels, LoadField(z, "gradT"),
                                               z.deltaT0),
                   rho |-> Field("rho"), mut |-> Field("mut"),
                   u |-> Field("u"), uc |-> Field("uc"), t |-> Field("t"),
                   gradU |-> Field("gradU"), tke |-> Field("tke"),
                   epsilon |-> Field("epsilon"), mu |-> Field("mu"), d |-> Field("d")]
         IN  IF check(m) # "" THEN Raise("AssertionError", check(m)) ELSE Ok(m)

\* a MeanFlowQuantities instance is constructed
Construct ==
    /\ pc = "gate_idle"
    /\ \E n \in 0..MaxZoneCells :
       \E cells \in [1..n -> ZoneCells], labels \in BOOLEAN, o \in ZoneOptions(n) :
          LET z == [cells |-> cells, labels |-> labels, long |-> o.long,
                    mask |-> o.mask, deltaT0 |-> o.deltaT0]
          IN  /\ zone' = z
              /\ mfq' = MeanFlowQuantities(z)
    /\ gate' = None
    /\ pc' = "gate_built"
    /\ UNCHANGED <<calcVars, bundleVars, fillVars, cleanVars, persistVars>>

-----------------------------------------------------------------------------
(* Gating selector: calculateShouldUse.                                     *)
(*                                                                         *)
(* Floating-point values that may be infinite or nan are records: finite    *)
(* (an exact rational), +inf, or nan.                                       *)

Fin(r) == [k |-> "fin", v |-> r]
Inf == [k |-> "inf", v |-> RZero]
NaN == [k |-> "nan", v |-> RZero]

\* the exact square root of a perfect square
ISqrt(x) == CHOOSE s \in 0..x : s * s = x

\* np.sqrt of a rational that is the square of a rational
RSqrt(r) == <<ISqrt(r[1]), ISqrt(r[2])>>

\* a / b for integers a >= 0, b >= 0, as numpy divides: x/0 is inf, 0/0 is nan
FDivInt(a, b) ==
    IF b # 0 THEN Fin(Rat(a, b))
    ELSE IF a # 0 THEN Inf
    ELSE NaN

\* r * x for a finite r >= 0: 0 * inf is nan
FMul(r, x) ==
    IF x.k = "fin" THEN Fin(RMul(r, x.v))
    ELSE IF x.k = "inf" /\ r[1] # 0 THEN Inf
    ELSE NaN

\* x >= t for a finite t: False for nan
FGe(x, t) ==
    IF x.k = "fin" THEN RGe(x.v, t)
    ELSE x.k = "inf"

\* x <= t for a finite t: False for nan
FLe(x, t) ==
    IF x.k = "fin" THEN RLe(x.v, t)
    ELSE FALSE

\* lines 98-102: grad_mag of cell i
GradMag(m, i) ==
    LET g == m.gradT[i]
        sumsq == RAdd(RAdd(RMul(g[1], g[1]), RMul(g[2], g[2])), RMul(g[3], g[3]))
    IN  FMul(RSqrt(sumsq), FDivInt(m.tke[i] * ISqrt(m.tke[i]), m.epsilon[i]))

\* thresholds offered to calculateShouldUse
Thresholds == {<<-1, 1>>, <<0, 1>>, <<1, 1000>>, <<5, 8>>, <<20, 1>>}

\* calculateShouldUse with the comparison reversed
calculateShouldUse_le(m, threshold) ==
    IF m.labels THEN Raise("AttributeError", "no attribute 'tke'")
    ELSE Ok([i \in 1..m.n_points |-> FLe(GradMag(m, i), threshold)])

\* calculateShouldUse: the mask, or the exception raised for a label-mode
\* container, which has no tke
calculateShouldUse(m, threshold) ==
    IF m.labels THEN Raise("AttributeError", "no attribute 'tke'")
    ELSE Ok([i \in 1..m.n_points |-> FGe(GradMag(m, i), threshold)])

\* a call of calculateShouldUse on the container constructed
CalculateShouldUse ==
    /\ pc = "gate_built"
    /\ mfq.status = "ok"
    /\ \E threshold \in Thresholds :
          LET r == calculateShouldUse(mfq.value, threshold)
          IN  gate' = [threshold |-> threshold, status |-> r.status,
                       should_use |-> r.value]
    /\ pc' = "gate_done"
    /\ UNCHANGED <<calcVars, bundleVars, zone, mfq, fillVars, cleanVars, persistVars>>

-----------------------------------------------------------------------------
(* Floating-point arithmetic on values that may be infinite or nan, as      *)
(* numpy computes it: x/0 is +-inf, 0/0, 0*inf and inf-inf are nan, and a   *)
(* comparison with nan is False.  Zeros are taken to be positive.           *)

NInf == [k |-> "ninf", v |-> RZero]

\* a float from an integer
XInt(n) == Fin(<<n, 1>>)

\* -1, 0 or 1: the sign of a value that is not nan
XSign(x) ==
    IF x.k = "inf" THEN 1
    ELSE IF x.k = "ninf" THEN -1
    ELSE IF x.v[1] > 0 THEN 1 ELSE IF x.v[1] < 0 THEN -1 ELSE 0

XNeg(x) ==
    IF x.k = "fin" THEN Fin(<<-x.v[1], x.v[2]>>)
    ELSE IF x.k = "inf" THEN NInf
    ELSE IF x.k = "ninf" THEN Inf
    ELSE NaN

XAbs(x) == IF x.k = "nan" THEN NaN ELSE IF XSign(x) < 0 THEN XNeg(x) ELSE x

XAdd(x, y) ==
    IF x.k = "nan" \/ y.k = "nan" THEN NaN
    ELSE IF x.k = "fin" /\ y.k = "fin" THEN Fin(RAdd(x.v, y.v))
    ELSE IF x.k = "fin" THEN y
    ELSE IF y.k = "fin" \/ y.k = x.k THEN x
    ELSE NaN

XMul(x, y) ==
    IF x.k = "nan" \/ y.k = "nan" THEN NaN
    ELSE IF x.k = "fin" /\ y.k = "fin" THEN Fin(RMul(x.v, y.v))
    ELSE IF XSign(x) * XSign(y) > 0 THEN Inf
    ELSE IF XSign(x) * XSign(y) < 0 THEN NInf
    ELSE NaN

XDiv(x, y) ==
    IF x.k = "nan" \/ y.k = "nan" THEN NaN
    ELSE IF y.k # "fin" THEN (IF x.k = "fin" THEN XInt(0) ELSE NaN)
    ELSE IF y.v[1] # 0
    THEN (IF x.k = "fin" THEN Fin(RDiv(x.v, y.v))
          ELSE IF XSign(x) * XSign(y) > 0 THEN Inf ELSE NInf)
    ELSE IF XSign(x) > 0 THEN Inf
    ELSE IF XSign(x) < 0 THEN NInf
    ELSE NaN

\* x < y
XLt(x, y) ==
    /\ x.k # "nan" /\ y.k # "nan"
    /\ \/ x.k = "fin" /\ y.k = "fin" /\ RLt(x.v, y.v)
       \/ x.k = "ninf" /\ y.k # "ninf"
       \/ x.k = "fin" /\ y.k = "inf"

\* x > y
XGt(x, y) == XLt(y, x)

\* np.sqrt of a value >= 0 whose finite values are squares of rationals
XSqrt(x) == IF x.k = "fin" THEN Fin(RSqrt(x.v)) ELSE x

-----------------------------------------------------------------------------
(* Invariant calculator: calcInvariants.  multi_dot multiplies a chain of   *)
(* equally-sized factors from the right.                                    *)

\* a 3x3 array from the entry at each position
Mat(E(_, _)) ==
    << <<E(1, 1), E(1, 2), E(1, 3)>>,
       <<E(2, 1), E(2, 2), E(2, 3)>>,
       <<E(3, 1), E(3, 2), E(3, 3)>> >>

\* np.dot of two vectors
Dot(u, v) ==
    XAdd(XAdd(XMul(u[1], v[1]), XMul(u[2], v[2])), XMul(u[3], v[3]))

Transpose(A) == Mat(LAMBDA i, j : A[j][i])

\* np.dot of a matrix and a (column) vector
MatVec(A, v) ==
    <<Dot(A[1], v), Dot(A[2], v), Dot(A[3], v)>>

\* np.dot of two matrices
MatMul(A, B) ==
    LET Bt == Transpose(B) IN <<MatVec(Bt, A[1]), MatVec(Bt, A[2]), MatVec(Bt, A[3])>>

\* the trace that reads one diagonal entry only
Trace_corner(A) == A[1][1]

\* np.trace
Trace(A) == XAdd(XAdd(A[1][1], A[2][2]), A[3][3])

\* the symmetric part halved: (gradU + gradU^T)/2
SymPart_halved(gradU) ==
    Mat(LAMBDA i, j : XDiv(XAdd(gradU[i][j], gradU[j][i]), XInt(2)))

\* line 38: S = gradU + gradU^T
SymPart(gradU) == Mat(LAMBDA i, j : XAdd(gradU[i][j], gradU[j][i]))

\* line 39: R = gradU - gradU^T
AntiPart(gradU) == Mat(LAMBDA i, j : XAdd(gradU[i][j], XNeg(gradU[j][i])))

\* np.eye(3)
Eye == Mat(LAMBDA i, j : XInt(IF i = j THEN 1 ELSE 0))

\* lines 50-64: the 13 invariants from S, R, the products computed beforehand
\* and gradT
InvariantsOf(S, R, S2, R2, S_R2, gradT) ==
    << Trace(S2),
       Trace(MatMul(S2, S)),
       Trace(R2),
       Trace(S_R2),
       Trace(MatMul(S2, R2)),
       Trace(MatMul(S2, MatMul(R2, MatMul(S, R)))),
       Dot(gradT, gradT),
       Dot(gradT, MatVec(S, gradT)),
       Dot(gradT, MatVec(S2, gradT)),
       Dot(gradT, MatVec(R2, gradT)),
       Dot(gradT, MatVec(S, MatVec(R, gradT))),
       Dot(gradT, MatVec(S2, MatVec(R, gradT))),
       Dot(gradT, MatVec(R, MatVec(S_R2, gradT))) >>

\* the sum of two matrices
MatAdd(A, B) == Mat(LAMBDA i, j : XAdd(A[i][j], B[i][j]))

\* lines 69-74: the 6 basis tensors
BasisOf(S, R, S2, R2) == <<Eye, S, S2, R, R2, MatAdd(MatMul(S, R), MatMul(R, S))>>

\* lines 44-80: S_R2, then the 13 invariants, and with basis the pair of the
\* invariants and the 6 basis tensors
FromProducts(S, R, S2, R2, gradT, basis) ==
    IF basis
    THEN <<InvariantsOf(S, R, S2, R2, MatMul(S, R2), gradT), BasisOf(S, R, S2, R2)>>
    ELSE InvariantsOf(S, R, S2, R2, MatMul(S, R2), gradT)

\* lines 42-43: S2 and R2, computed once from S and R
FromParts(S, R, gradT, basis) ==
    FromProducts(S, R, MatMul(S, S), MatMul(R, R), gradT, basis)

\* calcInvariants: the 13 invariants, and with basis the pair of the
\* invariants and the 6 basis tensors
calcInvariants(gradU, gradT, basis) ==
    FromParts(SymPart(gradU), AntiPart(gradU), gradT, basis)

\* largest factor by which the temperature gradients offered are scaled
MaxGradT == 1

\* a 3x3 integer matrix from its diagonal, its upper and its lower
\* off-diagonal entries (in the order 12, 13, 23)
MatOf(d, u, l) ==
    << <<d[1], u[1], u[2]>>, <<l[1], d[2], u[3]>>, <<l[2], l[3], d[3]>> >>

Diagonals == {<<1, -1, 0>>, <<0, 0, 0>>, <<1, 2, -1>>}
OffDiagonals == {<<0, 0, 0>>, <<1, 0, 0>>, <<0, -1, 2>>}

\* velocity gradients offered to calcInvariants: symmetric ones (equal upper
\* and lower entries, the pure strain diag(1,-1,0) among them) and others
GradUs == {MatOf(d, u, l) : d \in Diagonals, u \in OffDiagonals, l \in OffDiagonals}

\* temperature gradients offered to calcInvariants: four directions (the zero
\* vector among them), scaled
GradTs ==
    { <<f * v[1], f * v[2], f * v[3]>> :
        f \in 1..MaxGradT,
        v \in {<<1, 0, 0>>, <<0, 0, 0>>, <<0, -2, 1>>, <<1, 1, -1>>} }

\* integer arrays as arrays of floats
XVec(v) == <<XInt(v[1]), XInt(v[2]), XInt(v[3])>>
XMat(A) == <<XVec(A[1]), XVec(A[2]), XVec(A[3])>>

\* a call of calcInvariants
CalcInvariants ==
    /\ pc = "inv_idle"
    /\ \E gradU \in GradUs, gradT \in GradTs, basis \in BOOLEAN :
          inv' = [gradU |-> gradU, gradT |-> gradT, basis |-> basis,
                  ret |-> calcInvariants(XMat(gradU), XVec(gradT), basis)]
    /\ pc' = "inv_done"
    /\ UNCHANGED <<feat, gamma, bundleVars, fillVars, cleanVars, persistVars, gateVars>>

-----------------------------------------------------------------------------
(* Feature extractor: calculateFeatures and calculateFeaturesAndBasis.      *)

\* a 3x3 array of floats times a float
Scale(A, f) == Mat(LAMBDA i, j : XMul(A[i][j], f))

\* lines 143-151: the row of features from the value ret of calcInvariants,
\* with the tensor basis when basis is asked for
RowOf(ret, Re_wall, nut_over_nu, basis) ==
    [x |-> (IF basis THEN ret[1] ELSE ret) \o <<Re_wall, nut_over_nu>>,
     tensor_basis |-> IF basis THEN ret[2] ELSE None]

\* lines 137-144: calcInvariants on the gradients of one cell, scaled by the
\* factors of lines 135-136
ScaledInvariants(gradU, gradT, gradU_factor, gradT_factor, basis) ==
    calcInvariants(Scale(XMat(gradU), gradU_factor),
                   <<XMul(Fin(gradT[1]), gradT_factor),
                     XMul(Fin(gradT[2]), gradT_factor),
                     XMul(Fin(gradT[3]), gradT_factor)>>, basis)

\* lines 135-151 on the arrays already selected by should_use: the feature
\* rows, each with its tensor basis when basis is asked for
RowsOf(tke, epsilon, gradU, gradT, d, rho, mu, mut, basis) ==
    [i \in 1..Len(tke) |->
        RowOf(ScaledInvariants(gradU[i], gradT[i],
                  XDiv(XMul(Fin(<<1, 2>>), XInt(tke[i])), XInt(epsilon[i])),
                  XDiv(XMul(XInt(tke[i]), XSqrt(XInt(tke[i]))), XInt(epsilon[i])),
                  basis),
              XDiv(XMul(XMul(XSqrt(XInt(tke[i])), XInt(d[i])), XInt(rho[i])),
                   XInt(mu[i])),
              XDiv(XInt(mut[i]), XInt(mu[i])),
              basis)]

\* the rows computed from the temperature gradient of the first n_useful
\* cells instead of that of the cells selected
FeatureRows_prefix(m, should_use, basis) ==
    RowsOf(Compress(m.tke, should_use), Compress(m.epsilon, should_use),
           Compress(m.gradU, should_use),
           SubSeq(m.gradT, 1, CountTrue(should_use)),
           Compress(m.d, should_use), Compress(m.rho, should_use),
           Compress(m.mu, should_use), Compress(m.mut, should_use), basis)

\* lines 125-151 and 176-204: every array is indexed by should_use, then the
\* rows are computed
FeatureRows(m, should_use, basis) ==
    RowsOf(Compress(m.tke, should_use), Compress(m.epsilon, should_use),
           Compress(m.gradU, should_use), Compress(m.gradT, should_use),
           Compress(m.d, should_use), Compress(m.rho, should_use),
           Compress(m.mu, should_use), Compress(m.mut, should_use), basis)

\* line 155: x_features, the array of the rows
XFeatures(rows) == [k \in 1..Len(rows) |-> rows[k].x]

\* line 208: the pair x_features, tensor_basis
XFeaturesAndBasis(rows) ==
    <<[k \in 1..Len(rows) |-> rows[k].x], [k \in 1..Len(rows) |-> rows[k].tensor_basis]>>

\* calculateFeatures: x_features, or the exception raised for a label-mode
\* container, which has no tke
calculateFeatures(m, should_use) ==
    IF m.labels THEN Raise("AttributeError", "no attribute 'tke'")
    ELSE Ok(XFeatures(FeatureRows(m, should_use, FALSE)))

\* calculateFeaturesAndBasis: the pair x_features, tensor_basis, or the
\* exception
calculateFeaturesAndBasis(m, should_use) ==
    IF m.labels THEN Raise("AttributeError", "no attribute 'tke'")
    ELSE Ok(XFeaturesAndBasis(FeatureRows(m, should_use, TRUE)))

\* the cells of the zones on which feature extraction is exercised: the base
\* cell, a cell with other statistics and gradients, and a cell whose
\* dissipation rate is zero
FeatureCells ==
    { BaseCell,
      [BaseCell EXCEPT !.gradT = <<0, 0, -2>>, !.tke = 1, !.epsilon = 1],
      [BaseCell EXCEPT !.epsilon = 0] }

\* the record of a call of calculateFeatures that ended as r
FeaturesCall(should_use, r) ==
    [fn |-> "calculateFeatures", should_use |-> should_use,
     status |-> r.status, x_features |-> r.value, tensor_basis |-> None]

\* the record of a call of calculateFeaturesAndBasis that ended as r
FeaturesAndBasisCall(should_use, r) ==
    [fn |-> "calculateFeaturesAndBasis", should_use |-> should_use,
     status |-> r.status,
     x_features |-> IF r.status = "ok" THEN r.value[1] ELSE r.value,
     tensor_basis |-> IF r.status = "ok" THEN <<r.value[2]>> ELSE None]

\* a call of calculateFeatures on the container constructed, with any mask
\* over its cells
CalculateFeatures ==
    /\ pc = "gate_built"
    /\ mfq.status = "ok"
    /\ \A c \in 1..Len(zone.cells) : zone.cells[c] \in FeatureCells
    /\ \E should_use \in [1..mfq.value.n_points -> BOOLEAN] :
          feat' = FeaturesCall(should_use, calculateFeatures(mfq.value, should_use))
    /\ pc' = "feat_done"
    /\ UNCHANGED <<inv, gamma, bundleVars, gateVars, fillVars, cleanVars, persistVars>>

\* a call of calculateFeaturesAndBasis on the container constructed
CalculateFeaturesAndBasis ==
    /\ pc = "gate_built"
    /\ mfq.status = "ok"
    /\ \A c \in 1..Len(zone.cells) : zone.cells[c] \in FeatureCells
    /\ \E should_use \in [1..mfq.value.n_points -> BOOLEAN] :
          feat' = FeaturesAndBasisCall(should_use,
                                       calculateFeaturesAndBasis(mfq.value, should_use))
    /\ pc' = "feat_done"
    /\ UNCHANGED <<inv, gamma, bundleVars, gateVars, fillVars, cleanVars, persistVars>>

-----------------------------------------------------------------------------
(* Label calculator: calculateGamma.                                        *)

\* values offered as prt_cap, all positive
PrtCaps == {<<1, 2>>, <<1, 1>>, <<2, 1>>, <<20, 1>>}

\* lines 415-417 of cell i: F, one factor per direction
CorrectionF(m, i) ==
    LET norm == XSqrt(XInt(m.uc[i][1] * m.uc[i][1] + m.uc[i][2] * m.uc[i][2]
                           + m.uc[i][3] * m.uc[i][3]))
        F1(c) == XAdd(norm, XAbs(XInt(m.u[i][c] * m.t[i])))
    IN  <<XDiv(XInt(1), F1(1)), XDiv(XInt(1), F1(2)), XDiv(XInt(1), F1(3))>>

\* lines 411-426 of cell i: gamma before clipping
RawGamma(m, i, use_correction) ==
    LET F == IF use_correction THEN CorrectionF(m, i)
             ELSE <<XInt(1), XInt(1), XInt(1)>>
        uc == XVec(m.uc[i])
        gradT == <<Fin(m.gradT[i][1]), Fin(m.gradT[i][2]), Fin(m.gradT[i][3])>>
        Fuc == <<XMul(F[1], uc[1]), XMul(F[2], uc[2]), XMul(F[3], uc[3])>>
        FgradT == <<XMul(F[1], gradT[1]), XMul(F[2], gradT[2]), XMul(F[3], gradT[3])>>
        top == Dot(Fuc, gradT)
        bottom == Dot(FgradT, gradT)
        alpha_t == XDiv(XNeg(top), bottom)
    IN  XMul(alpha_t, XDiv(XInt(m.rho[i]), XInt(m.mut[i])))

\* line 429: gamma[gamma > prt_cap] = prt_cap
ClipHigh(g, prt_cap) == IF XGt(g, Fin(prt_cap)) THEN Fin(prt_cap) ELSE g

\* line 430: gamma[gamma < 1.0/prt_cap] = 1.0/prt_cap
ClipLow(g, prt_cap) ==
    IF XLt(g, Fin(RDiv(ROne, prt_cap))) THEN Fin(RDiv(ROne, prt_cap)) ELSE g

\* calculateGamma: the labels, or the exception raised for a feature-mode
\* container, which has no uc
calculateGamma(m, prt_cap, use_correction) ==
    IF ~m.labels THEN Raise("AttributeError", "no attribute 'uc'")
    ELSE Ok([i \in 1..m.n_points |->
                ClipLow(ClipHigh(RawGamma(m, i, use_correction), prt_cap), prt_cap)])

\* a call of calculateGamma on the container constructed
CalculateGamma ==
    /\ pc = "gate_built"
    /\ mfq.status = "ok"
    /\ \E prt_cap \in PrtCaps, use_correction \in BOOLEAN :
          LET r == calculateGamma(mfq.value, prt_cap, use_correction)
          IN  gamma' = [prt_cap |-> prt_cap, use_correction |-> use_correction,
                        status |-> r.status, value |-> r.value]
    /\ pc' = "gamma_done"
    /\ UNCHANGED <<inv, feat, bundleVars, gateVars, fillVars, cleanVars, persistVars>>

-----------------------------------------------------------------------------
(* Model bundle: rafofc/models.py, class MLModel.  A file holds the object  *)
(* that joblib.load returns: a list of items.  An object is known by its    *)
(* Python type.                                                             *)

\* largest number of rows of the array passed to predict
MaxBatch == 2

\* line 83: the number of feature columns predict accepts
PredictColumns == 19

\* objects found as the description of a bundle: strings and a number
Descriptions ==
    { [type |-> "str", text |-> "RF trained on cube"],
      [type |-> "str", text |-> ""],
      [type |-> "int", text |-> "3"] }

\* objects found as the model of a bundle
ModelObjects ==
    { [type |-> "RandomForestRegressor"], [type |-> "TBNNS"] }

\* what a bundle file may hold: [description, model], or a list of another
\* length
BundleLists ==
    {<<d, m>> : d \in Descriptions, m \in ModelObjects}
        \cup {<<d>> : d \in Descriptions}
        \cup {<<d, m, m>> : d \in Descriptions, m \in ModelObjects}

\* the paths: that of the default model shipped with the package, and a custom one
DefaultPath == "data/defaultML.pckl"
CustomPath == "custom.pckl"

\* the files on disk: at each path a list, or nothing
FileSystems == [{DefaultPath, CustomPath} -> {None} \cup {<<l>> : l \in BundleLists}]

\* MLModel.__init__: the instance, or the exception raised.  The optional
\* filepath is None or <<path>>.
MLModel(fs, filepath) ==
    LET path == IF filepath = None THEN DefaultPath ELSE filepath[1]
    IN  IF fs[path] = None
        THEN Raise("AssertionError", "no file was found in path")
        ELSE IF Len(fs[path][1]) # 2
        THEN Raise("ValueError", "wrong number of values to unpack")
        ELSE Ok([description |-> fs[path][1][1], model |-> fs[path][1][2]])

\* predict without the assertion on the type of the model
predict_nokind(self, x_shape) ==
    IF x_shape[2] # PredictColumns
    THEN Raise("AssertionError", "Wrong number of features!")
    ELSE Ok(x_shape[1])

\* MLModel.predict on an array of shape x_shape: the number of entries of the
\* Pr_t array returned (their values are the regressor's), or the exception
predict(self, x_shape) ==
    IF self.model.type # "RandomForestRegressor"
    THEN Raise("AssertionError", "")
    ELSE IF x_shape[2] # PredictColumns
    THEN Raise("AssertionError", "Wrong number of features!")
    ELSE Ok(x_shape[1])

\* MLModel.printDescription: the string printed, or the exception
printDescription(self) ==
    IF self.description.type # "str"
    THEN Raise("AssertionError", "")
    ELSE Ok(self.description.text)

\* an MLModel is constructed, by default or from a custom path
LoadModel ==
    /\ pc = "ml_idle"
    /\ \E fs \in FileSystems, filepath \in {None, <<CustomPath>>} :
          /\ files' = fs
          /\ ml' = [filepath |-> filepath] @@ MLModel(fs, filepath)
    /\ ml_call' = None
    /\ pc' = "ml_loaded"
    /\ UNCHANGED <<calcVars, fillVars, cleanVars, persistVars, gateVars>>

\* predict is called on the instance
Predict ==
    /\ pc \in {"ml_loaded", "ml_called"}
    /\ ml.status = "ok"
    /\ \E rows \in 0..MaxBatch, cols \in {PredictColumns, PredictColumns - 4} :
          ml_call' = [method |-> "predict", x_shape |-> <<rows, cols>>]
                         @@ predict(ml.value, <<rows, cols>>)
    /\ pc' = "ml_called"
    /\ UNCHANGED <<files, ml, calcVars, fillVars, cleanVars, persistVars, gateVars>>

\* printDescription is called on the instance
PrintDescription ==
    /\ pc \in {"ml_loaded", "ml_called"}
    /\ ml.status = "ok"
    /\ ml_call' = [method |-> "printDescription", x_shape |-> None]
                      @@ printDescription(ml.value)
    /\ pc' = "ml_called"
    /\ UNCHANGED <<files, ml, calcVars, fillVars, cleanVars, persistVars, gateVars>>

-----------------------------------------------------------------------------
(* Specifications.                                                          *)

Idle ==
    /\ fill_args = None /\ fill_ret = None
    /\ x_features = << >> /\ mask = << >> /\ prev_mask = << >>
    /\ cleaned_exs = None /\ iter = 0 /\ warning_flag = TRUE /\ clean_ret = None
    /\ training_list = << >> /\ disk = None /\ save_args = None /\ load_ret = None
    /\ zone = None /\ mfq = None /\ gate = None
    /\ inv = None /\ feat = None /\ gamma = None
    /\ files = None /\ ml = None /\ ml_call = None

InitFill == pc = "fill_idle" /\ Idle
NextFill == FillPrt \/ FillAlpha
SpecFill == InitFill /\ [][NextFill]_vars

InitClean == pc = "clean_idle" /\ Idle
NextClean == CleanStart \/ CleanIterate \/ CleanReturn
SpecClean == InitClean /\ [][NextClean]_vars

InitPersist == pc = "persist_idle" /\ Idle
NextPersist == SaveTrainingFeatures \/ LoadTrainingFeatures
SpecPersist == InitPersist /\ [][NextPersist]_vars

InitGate == pc = "gate_idle" /\ Idle
NextGate == Construct \/ CalculateShouldUse
SpecGate == InitGate /\ [][NextGate]_vars

\* the feature extractor works on the container that Construct builds
NextFeat == Construct \/ CalculateFeatures \/ CalculateFeaturesAndBasis
SpecFeat == InitGate /\ [][NextFeat]_vars

\* the label calculator works on the container that Construct builds
NextGamma == Construct \/ CalculateGamma
SpecGamma == InitGate /\ [][NextGamma]_vars

InitBundle == pc = "ml_idle" /\ Idle
NextBundle == LoadModel \/ Predict \/ PrintDescription
SpecBundle == InitBundle /\ [][NextBundle]_vars

InitInv == pc = "inv_idle" /\ Idle
NextInv == CalcInvariants
SpecInv == InitInv /\ [][NextInv]_vars

\* the whole module: any one of the components is exercised
Init == InitFill \/ InitClean \/ InitPersist \/ InitGate \/ InitInv \/ InitBundle
Next ==
    \/ NextFill \/ NextClean \/ NextPersist \/ NextGate
    \/ NextFeat \/ NextGamma \/ NextInv \/ NextBundle
Spec == Init /\ [][Next]_vars

-----------------------------------------------------------------------------
(* Properties of the result scatterer.                                      *)

\* the position of the k-th True entry of m
KthTrue(m, k) == CHOOSE i \in 1..Len(m) : m[i] /\ Rank(m, i) = k

\* the arguments of a scatter call pass validation: one value per True cell,
\* no negative scalar / no negative diagonal entry
FillValuesValid ==
    /\ Len(fill_args.values) = CountTrue(fill_args.should_use)
    /\ \A k \in 1..Len(fill_args.values) :
          IF fill_args.fn = "fillPrt"
          THEN fill_args.values[k][1] >= 0
          ELSE \A i \in 1..3 : fill_args.values[k][i][i][1] >= 0

\* the isotropic default tensor for a default d: 1/d on the diagonal, 0 elsewhere
IsIsotropicDefault(t, d) ==
    \A i, j \in 1..3 :
        IF i = j THEN t[i][j][1] * d[1] = t[i][j][2] * d[2] /\ t[i][j][1] > 0
        ELSE t[i][j][1] = 0

\* C1: scatter round trip.  For every mask M, every values array V that passes
\* validation and every default d > 0, fillPrt and fillAlpha return a full
\* array of the length of M whose entries at the True positions of M are V, in
\* ascending order, and whose entries at the False positions are the isotropic
\* default: d for fillPrt; diag(1/d, 1/d, 1/d) for fillAlpha.
C1_ScatterRoundTrip ==
    (/\ pc = "fill_done"
     /\ FillValuesValid
     /\ fill_args.default_prt # None
     /\ fill_args.default_prt[1] > 0)
    => /\ fill_ret.status = "ok"
       /\ Len(fill_ret.value) = Len(fill_args.should_use)
       /\ \A k \in 1..Len(fill_args.values) :
             fill_ret.value[KthTrue(fill_args.should_use, k)] = fill_args.values[k]
       /\ \A i \in 1..Len(fill_args.should_use) :
             ~fill_args.should_use[i] =>
                 IF fill_args.fn = "fillPrt"
                 THEN fill_ret.value[i] = fill_args.default_prt
                 ELSE IsIsotropicDefault(fill_ret.value[i], fill_args.default_prt)

\* C1 witness: a tensor scatter over a mask with True and False cells and
\* default 2 has returned
C1_Witness ==
    /\ pc = "fill_done"
    /\ fill_args.fn = "fillAlpha"
    /\ fill_ret.status = "ok"
    /\ fill_args.default_prt = <<2, 1>>
    /\ fill_args.should_use = <<FALSE, TRUE, FALSE>>
    /\ fill_args.values[1][1][2] = <<-1, 1>>

\* C2: scatter validation.  fillPrt and fillAlpha raise and return no array
\* whenever the number of values differs from the True-count of the mask,
\* whenever a scalar value is negative (fillPrt) and whenever a diagonal entry
\* of a tensor is negative (fillAlpha); a tensor with negative off-diagonal
\* entries and no negative diagonal entry is accepted.
C2_ScatterValidation ==
    pc = "fill_done" =>
        /\ ~FillValuesValid => fill_ret.status = "AssertionError"
        /\ (/\ fill_args.fn = "fillAlpha"
            /\ FillValuesValid
            /\ fill_args.default_prt = None \/ fill_args.default_prt[1] > 0)
           => fill_ret.status = "ok"

\* C2 witness: a scalar scatter with the right number of values, one of them
\* negative, has been rejected
C2_Witness ==
    /\ pc = "fill_done"
    /\ fill_args.fn = "fillPrt"
    /\ Len(fill_args.values) = CountTrue(fill_args.should_use)
    /\ \E k \in 1..Len(fill_args.values) : fill_args.values[k][1] < 0
    /\ fill_args.default_prt = <<1, 1>>
    /\ fill_ret.status = "AssertionError"

-----------------------------------------------------------------------------
(* Properties of the outlier cleaner.                                       *)

\* C3: across the iterations of the cleaning loop the inclusion mask only
\* shrinks: the rows included after an iteration are a subset of the rows
\* included after the iteration before it.
C3_MaskOnlyShrinks ==
    (pc \in {"clean_loop", "clean_exit", "clean_done"} /\ iter >= 2)
    => \A r \in 1..Len(mask) : mask[r] => prev_mask[r]

\* C4: the output mask of cleanFeatures is a subset of the gating mask, the
\* k-th True cell of the gating mask being kept exactly when feature row k is
\* kept; its True-count is the row count of the returned features (and of the
\* returned tensor basis when one is passed); the kept rows are returned in
\* their original relative order.
C4_CleanOutputConsistent ==
    pc = "clean_done" =>
        LET su == clean_ret.should_use
            out == clean_ret.new_should_use
            feats == clean_ret.new_x_features
        IN  /\ Len(out) = Len(su)
            /\ \A i \in 1..Len(su) : out[i] => su[i]
            /\ \A i \in 1..Len(su) : su[i] => (out[i] <=> mask[Rank(su, i)])
            /\ CountTrue(out) = Len(feats)
            /\ Len(feats) = CountTrue(mask)
            /\ \A k \in 1..Len(feats) : feats[k] = x_features[KthTrue(mask, k)]
            /\ clean_ret.tensor_basis # None =>
                  /\ Len(clean_ret.new_tensor_basis[1]) = CountTrue(out)
                  /\ \A k \in 1..Len(feats) :
                        clean_ret.new_tensor_basis[1][k] = KthTrue(mask, k)
            /\ clean_ret.tensor_basis = None => clean_ret.new_tensor_basis = None

\* C4 witness: cleanFeatures has returned with a tensor basis, a gating mask
\* holding a False cell, a cleaned-out row followed by a kept row
C4_Witness ==
    /\ pc = "clean_done"
    /\ clean_ret.tensor_basis # None
    /\ \E i \in 1..Len(clean_ret.should_use) : ~clean_ret.should_use[i]
    /\ \E r, q \in 1..Len(mask) : r < q /\ ~mask[r] /\ mask[q]
    /\ \E r, q \in 1..Len(mask) : r < q /\ mask[r] /\ ~mask[q]

-----------------------------------------------------------------------------
(* Properties of dataset persistence.                                       *)

\* the indices idx are distinct and lie among those of an n-row array
DistinctIn(idx, n) ==
    /\ \A k \in 1..Len(idx) : idx[k] \in 1..n
    /\ \A k, l \in 1..Len(idx) : idx[k] = idx[l] => k = l

\* the calls of downsampleIdx made so far with a downsample > 0, as
\* <<n_total, downsample, idx>>
DownsampleCalls ==
    (IF /\ pc \in {"persist_saved", "persist_loaded"}
        /\ save_args.downsample # None
        /\ save_args.status = "ok"
     THEN {<<Len(training_list[1]), save_args.downsample, save_args.idx>>}
     ELSE {})
    \cup
    (IF /\ pc = "persist_loaded"
        /\ load_ret.downsample # None
        /\ load_ret.status = "ok"
     THEN {<<Len(disk[2][1]), load_ret.downsample, load_ret.idx>>}
     ELSE {})

C6_RoundTrip ==
    (/\ pc = "persist_loaded"
     /\ save_args.downsample = None
     /\ load_ret.downsample = None
     /\ load_ret.model_type = save_args.model_type)
    => /\ load_ret.status = "ok"
       /\ Len(load_ret.value) = Len(training_list)
       /\ \E p \in Perms(Len(training_list[1])) :
             \A a \in 1..Len(training_list) :
                 /\ Len(load_ret.value[a]) = Len(training_list[a])
                 /\ \A k \in 1..Len(training_list[a]) :
                       load_ret.value[a][k] = training_list[a][p[k]]

\* C6 witness: a two-array list of three rows has been saved and loaded back
\* without downsampling, in another order
C6_Witness ==
    /\ pc = "persist_loaded"
    /\ save_args.downsample = None
    /\ load_ret.downsample = None
    /\ load_ret.status = "ok"
    /\ Len(training_list) = 2
    /\ Len(training_list[1]) = 3
    /\ load_ret.value[1] # training_list[1]

\* C7: loading a file with a model type other than the one embedded at save
\* time raises on the tag assertion and returns no list; loading with the
\* embedded model type does not raise on the tag assertion.
C7_TagChecked ==
    (pc = "persist_loaded" /\ disk # None)
    => ((load_ret.model_type # disk[1])
        <=> (/\ load_ret.status = "AssertionError"
             /\ load_ret.value = "Features from the wrong model!"))

\* C7 witness: a file saved as "RF" has been loaded as "TBNNS"
C7_Witness ==
    /\ pc = "persist_loaded"
    /\ disk # None
    /\ disk[1] = "RF"
    /\ load_ret.model_type = "TBNNS"
    /\ load_ret.status = "AssertionError"

-----------------------------------------------------------------------------
(* Properties of the gating selector and of the container.                  *)

\* C8: calculateShouldUse is monotonic in the threshold.  For a validated
\* container and thresholds t1 <= t2, every cell True in the mask for t2 is
\* True in the mask for t1, so the True-count for t2 is at most that for t1.
C8_GateMonotonic ==
    (pc = "gate_done" /\ gate.status = "ok")
    => \A t1 \in Thresholds :
          RLe(t1, gate.threshold) =>
              LET lower == calculateShouldUse(mfq.value, t1).value
              IN  /\ \A i \in 1..Len(gate.should_use) : gate.should_use[i] => lower[i]
                  /\ CountTrue(gate.should_use) <= CountTrue(lower)

\* C8 witness: a mask computed for threshold 20 holds a True and a False cell
\* and has fewer True cells than the mask of the same container for threshold 0
C8_Witness ==
    /\ pc = "gate_done"
    /\ gate.status = "ok"
    /\ gate.threshold = <<20, 1>>
    /\ \E i, j \in 1..Len(gate.should_use) : gate.should_use[i] /\ ~gate.should_use[j]
    /\ CountTrue(gate.should_use)
           < CountTrue(calculateShouldUse(mfq.value, RZero).value)

\* C9: for a container that passed validation and whose temperature gradient
\* is nonzero in every cell, calculateShouldUse with threshold 0 returns a
\* mask that is True in every cell.
C9_AllTrueAtZero ==
    (/\ pc = "gate_done"
     /\ gate.status = "ok"
     /\ gate.threshold = RZero
     /\ \A i \in 1..mfq.value.n_points :
           \E c \in 1..3 : mfq.value.gradT[i][c][1] # 0)
    => \A i \in 1..Len(gate.should_use) : gate.should_use[i]

\* variable f of the zone has a negative entry in a cell the mask selects
NegativeIn(z, f) ==
    \E i \in 1..Len(z.cells) : ZoneMask(z)[i] /\ z.cells[i][f] < 0

\* variable f of the zone is negative in a selected cell, or its length is not
\* the number of cells
Invalid(z, f) == NegativeIn(z, f) \/ z.long = f

\* C10: construction of MeanFlowQuantities raises, and no container is
\* produced, whenever density or turbulent viscosity has a negative entry or
\* a length different from the cell count, and in feature mode whenever TKE,
\* dissipation rate, molecular viscosity or wall distance has; in label mode
\* these four are neither loaded nor checked: whatever they hold, a container
\* without them is produced when the variables read are valid.
C10_ContainerValidation ==
    pc \in {"gate_built", "gate_done"} =>
        /\ (\E f \in {"rho", "mut"} : Invalid(zone, f)) => mfq.status # "ok"
        /\ (~zone.labels /\ \E f \in {"tke", "epsilon", "mu", "d"} : Invalid(zone, f))
               => mfq.status # "ok"
        /\ (/\ zone.labels
            /\ ~(\E f \in {"rho", "mut"} : Invalid(zone, f))
            /\ zone.long \notin {"gradT", "u", "uc", "t"})
           => /\ mfq.status = "ok"
              /\ \A f \in {"tke", "epsilon", "mu", "d"} : mfq.value[f] = None

\* C10 witness: a label-mode container has been constructed from a zone whose
\* TKE is negative in a selected cell, and a feature-mode construction from a
\* zone with a negative dissipation rate is what fails
C10_Witness ==
    /\ pc = "gate_built"
    /\ zone.labels
    /\ mfq.status = "ok"
    /\ NegativeIn(zone, "tke")
    /\ MeanFlowQuantities([zone EXCEPT !.labels = FALSE]).status = "AssertionError"

-----------------------------------------------------------------------------
(* Properties of the invariant calculator.                                  *)

\* the 13 invariants of the last call
Invariants == IF inv.basis THEN inv.ret[1] ELSE inv.ret

\* integer matrix algebra, for stating what the invariants must be
IDot(u, v) == u[1] * v[1] + u[2] * v[2] + u[3] * v[3]
IMatVec(A, v) == <<IDot(A[1], v), IDot(A[2], v), IDot(A[3], v)>>
IMatMul(A, B) ==
    LET Bt == Transpose(B)
    IN  <<IMatVec(Bt, A[1]), IMatVec(Bt, A[2]), IMatVec(Bt, A[3])>>

\* C11: for a symmetric velocity gradient G and any gradT, invariants 2, 3, 4,
\* 5, 9, 10, 11 and 12 are exactly 0, invariant 6 is gradT.gradT and invariant
\* 7 is gradT.(2G).gradT; for G = diag(1,-1,0) and gradT = (1,0,0) invariant 6
\* is 1 and invariant 7 is 2.  (Invariant k is entry k+1 of the tuple.)
C11_SymmetricGradient ==
    (pc = "inv_done" /\ inv.gradU = Transpose(inv.gradU))
    => /\ \A k \in {2, 3, 4, 5, 9, 10, 11, 12} : Invariants[k + 1] = XInt(0)
       /\ Invariants[7] = XInt(IDot(inv.gradT, inv.gradT))
       /\ Invariants[8] = XInt(2 * IDot(inv.gradT, IMatVec(inv.gradU, inv.gradT)))
       /\ (/\ inv.gradU = <<<<1, 0, 0>>, <<0, -1, 0>>, <<0, 0, 0>>>>
           /\ inv.gradT = <<1, 0, 0>>)
          => (Invariants[7] = XInt(1) /\ Invariants[8] = XInt(2))

\* C11 witness: calcInvariants has been called on the pure strain
\* diag(1,-1,0) with gradT = (1,0,0), and invariant 0 is not zero
C11_Witness ==
    /\ pc = "inv_done"
    /\ inv.gradU = <<<<1, 0, 0>>, <<0, -1, 0>>, <<0, 0, 0>>>>
    /\ inv.gradT = <<1, 0, 0>>
    /\ Invariants[1] # XInt(0)

\* the orthogonal matrices with integer entries: the signed permutations
SignedPermutations ==
    { Mat(LAMBDA i, j : IF j = p[i] THEN sgn[i] ELSE 0) :
        p \in Perms(3), sgn \in [1..3 -> {-1, 1}] }

\* C12: for every gradient tensor G, every gradT and every orthogonal Q (here
\* every signed permutation matrix), the 13 invariants of (Q G Q^T, Q gradT)
\* equal the 13 invariants of (G, gradT).
C12_RotationInvariance ==
    pc = "inv_done" =>
        \A Q \in SignedPermutations :
            calcInvariants(XMat(IMatMul(Q, IMatMul(inv.gradU, Transpose(Q)))),
                           XVec(IMatVec(Q, inv.gradT)), FALSE)
                = Invariants

\* C12 witness: calcInvariants has been called on a gradient that is not
\* symmetric and that some signed permutation changes, with every one of the
\* 13 invariants nonzero
C12_Witness ==
    /\ pc = "inv_done"
    /\ inv.gradU # Transpose(inv.gradU)
    /\ \E Q \in SignedPermutations :
          /\ IMatMul(Q, IMatMul(inv.gradU, Transpose(Q))) # inv.gradU
          /\ IMatVec(Q, inv.gradT) # inv.gradT
    /\ \A k \in 1..13 : Invariants[k] # XInt(0)

-----------------------------------------------------------------------------
(* Properties of the label calculator.                                      *)

\* C13: for every container and every cap > 0, in plain and in corrected
\* mode, every entry of the vector returned by calculateGamma lies in the
\* closed range [1/cap, cap].
C13_GammaClipped ==
    (pc = "gamma_done" /\ gamma.status = "ok")
    => \A i \in 1..Len(gamma.value) :
          /\ gamma.value[i].k = "fin"
          /\ RLe(RDiv(ROne, gamma.prt_cap), gamma.value[i].v)
          /\ RLe(gamma.value[i].v, gamma.prt_cap)

-----------------------------------------------------------------------------
(* Properties of the model bundle.                                          *)

\* the bundle held by the instance is of the expected kind
BundleMatches ==
    /\ ml.value.description.type = "str"
    /\ ml.value.model.type = "RandomForestRegressor"

\* C14 as stated: a bundle whose model object is not of the expected kind, or
\* whose description is not a string, is rejected at load time: no MLModel
\* instance holds a mismatched bundle.
C14_RejectedAtLoad ==
    (pc \in {"ml_loaded", "ml_called"} /\ ml.status = "ok") => BundleMatches

\* C14: construction fails when the file is missing and otherwise accepts any
\* two-item bundle; the kind is validated at use: predict raises an
\* AssertionError and returns nothing when the model is not a
\* RandomForestRegressor, printDescription raises one when the description is
\* not a string, and on a bundle of the expected kind printDescription
\* succeeds and predict succeeds on an array of 19 columns.
C14_ValidatedAtUse ==
    /\ pc \in {"ml_loaded", "ml_called"} =>
          LET path == IF ml.filepath = None THEN DefaultPath ELSE ml.filepath[1]
          IN  /\ files[path] = None => ml.status = "AssertionError"
              /\ (files[path] # None /\ Len(files[path][1]) = 2) => ml.status = "ok"
    /\ (pc = "ml_called" /\ ml_call.method = "predict") =>
          /\ ml.value.model.type # "RandomForestRegressor"
                => ml_call.status = "AssertionError"
          /\ (ml.value.model.type = "RandomForestRegressor"
              /\ ml_call.x_shape[2] = PredictColumns)
                => (ml_call.status = "ok" /\ ml_call.value = ml_call.x_shape[1])
    /\ (pc = "ml_called" /\ ml_call.method = "printDescription") =>
          (ml_call.status = "ok" <=> ml.value.description.type = "str")

\* C14 witness: an instance loaded from a custom file whose model is not a
\* RandomForestRegressor exists, and predict on 19 columns has raised
C14_Witness ==
    /\ pc = "ml_called"
    /\ ml.filepath = <<CustomPath>>
    /\ ml.status = "ok"
    /\ ml.value.model.type = "TBNNS"
    /\ ml_call.method = "predict"
    /\ ml_call.x_shape = <<MaxBatch, PredictColumns>>
    /\ ml_call.status = "AssertionError"

-----------------------------------------------------------------------------
(* Properties of the stop criteria of the outlier cleaner.                  *)

\* the numbers of rows cleaned by the last iteration and by the one before
\* it (meaningful once two iterations have run)
CleanedNow == Len(x_features) - CountTrue(mask)
CleanedBefore == Len(x_features) - CountTrue(prev_mask)

\* the loop has stopped and the result is treated as clean
StoppedClean == pc \in {"clean_exit", "clean_done"} /\ ~warning_flag

\* C15: at every iteration after the first, if the relative change of the
\* cleaned-row count with respect to the previous iteration is below the
\* tolerance - in particular when two consecutive iterations clean the same
\* number of rows, zero included - the loop stops at that iteration and no
\* non-convergence warning is given.
C15_StopsWhenUnchanged ==
    (/\ pc \in {"clean_loop", "clean_exit", "clean_done"}
     /\ iter >= 2
     /\ \/ CleanedNow = CleanedBefore
        \/ /\ CleanedBefore # 0
           /\ RLt(Rat(CleanedNow - CleanedBefore, CleanedBefore), TOL))
    => StoppedClean

\* criterion (a) is met by the last iteration: there is an iteration before
\* it, which cleaned some rows, and the relative change is below the tolerance
CriterionA ==
    /\ iter >= 2
    /\ CleanedBefore # 0
    /\ RLt(Rat(CleanedNow - CleanedBefore, CleanedBefore), TOL)

C17_CleanedFractionBounded ==
    (pc = "clean_done" /\ Len(x_features) > 0)
    => RLe(Rat(Len(x_features) - Len(clean_ret.new_x_features), Len(x_features)),
           MAX_CLEAN)

-----------------------------------------------------------------------------
(* Properties of the feature extractor.                                     *)

\* tke/epsilon and tke^1.5/epsilon of cell c of the container
TimeScale(c) == XDiv(XInt(mfq.value.tke[c]), XInt(mfq.value.epsilon[c]))
LengthScale(c) ==
    XDiv(XMul(XInt(mfq.value.tke[c]), XSqrt(XInt(mfq.value.tke[c]))),
         XInt(mfq.value.epsilon[c]))

\* the invariants (with the basis, if asked for) of cell c alone: of its gradU
\* scaled by 0.5*tke/epsilon and its gradT scaled by tke^1.5/epsilon
CellInvariants(c, basis) ==
    calcInvariants(
        Scale(XMat(mfq.value.gradU[c]), XMul(Fin(<<1, 2>>), TimeScale(c))),
        << XMul(Fin(mfq.value.gradT[c][1]), LengthScale(c)),
           XMul(Fin(mfq.value.gradT[c][2]), LengthScale(c)),
           XMul(Fin(mfq.value.gradT[c][3]), LengthScale(c)) >>,
        basis)

\* C18: the feature matrix (and the tensor basis array) has as many rows as
\* the mask has True cells, and row k is computed from the data of the k-th
\* True cell of the mask alone: its first 13 entries are the invariants of
\* that cell's scaled gradU and gradT, its last two are sqrt(tke)*d*rho/mu and
\* mut/mu of that cell; the cells where the mask is False play no part.
C18_FeatureRowBookkeeping ==
    (pc = "feat_done" /\ feat.status = "ok")
    => /\ Len(feat.x_features) = CountTrue(feat.should_use)
       /\ feat.fn = "calculateFeaturesAndBasis"
             => Len(feat.tensor_basis[1]) = CountTrue(feat.should_use)
       /\ \A k \in 1..Len(feat.x_features) :
             LET c == KthTrue(feat.should_use, k)
                 m == mfq.value
             IN  /\ Len(feat.x_features[k]) = 15
                 /\ SubSeq(feat.x_features[k], 1, 13) = CellInvariants(c, FALSE)
                 /\ feat.x_features[k][14]
                        = XDiv(XMul(XMul(XSqrt(XInt(m.tke[c])), XInt(m.d[c])),
                                    XInt(m.rho[c])), XInt(m.mu[c]))
                 /\ feat.x_features[k][15] = XDiv(XInt(m.mut[c]), XInt(m.mu[c]))
                 /\ feat.fn = "calculateFeaturesAndBasis"
                       => feat.tensor_basis[1][k] = CellInvariants(c, TRUE)[2]

\* C18 witness: calculateFeaturesAndBasis has returned for a mask that skips
\* the first cell of the container and takes a later one whose data differ
C18_Witness ==
    /\ pc = "feat_done"
    /\ feat.status = "ok"
    /\ feat.fn = "calculateFeaturesAndBasis"
    /\ Len(feat.should_use) >= 2
    /\ ~feat.should_use[1]
    /\ \E c \in 2..Len(feat.should_use) :
          /\ feat.should_use[c]
          /\ mfq.value.gradT[c] # mfq.value.gradT[1]
          /\ mfq.value.tke[c] # mfq.value.tke[1]
    /\ feat.x_features[1][1].k = "fin"

=============================================================================
